---- MODULE Spec2Model ----
(***************************************************************************)
(* linkapp.authentication: the credential store (manager.py), the event   *)
(* messenger (queue.py) and the HTTP gateway (wsgi.py).                    *)
(*                                                                         *)
(* A Python string is a sequence of code points, so that the username      *)
(* pattern and the password hash act on what the strings contain.  None    *)
(* (Python's None, or a keyword argument that is not passed) is <<-1>>,     *)
(* which is no string.  A Python bool is written as its str(), which is    *)
(* how redis-py stores it.                                                 *)
(***************************************************************************)
EXTENDS Integers, Sequences, FiniteSets, TLC

VARIABLES
    store,      \* redis: username -> hash stored under key(username)
    retries,    \* AuthenticationMessenger.retries
    conn,       \* the pika connection: "none", "open" or "closed"
    last,       \* the last manager call: its arguments, outcome and events
    live,       \* history: an add of u returned and no delete of u ran since
    addPw,      \* history: the password of that add while u is unmodified
    mpc,        \* the messenger's position: where its control is
    chan,       \* the channel the publish under way is for
    fails,      \* history: failed attempts of the run of connect() under way
    slept,      \* history: the time.sleep of the last failed attempt, or -1
    sent,       \* messages handed to the broker, per channel
    depth,      \* the frames of publish() on the stack of the call under way
    proc        \* the managers that share the store: the call of each that is
                \* under way, its position and locals, and its messenger

vars == <<store, retries, conn, last, live, addPw, mpc, chan, fails, slept, sent,
          depth, proc>>

mgrVars == <<store, last, live, addPw, proc>>
msgVars == <<mpc, chan, fails, slept, sent, depth>>

----------------------------------------------------------------------------
(* Strings *)

None == <<-1>>
TrueStr == <<84, 114, 117, 101>>                \* "True"
FalseStr == <<70, 97, 108, 115, 101>>           \* "False"

alice == <<97, 108, 105, 99, 101>>              \* "alice"
svcWorker1 == <<115, 118, 99, 47, 119, 111, 114, 107, 101, 114, 45, 49>>
                                                \* "svc/worker-1"
naive == <<110, 97, 239, 118, 101>>             \* "naive" with U+00EF for i
badUser == <<98, 97, 100, 32, 117, 115, 101, 114>>  \* "bad user"

pwA == <<112, 64, 115, 115>>                    \* "p@ss"
pwB == <<104, 117, 110, 116, 101, 114, 50>>     \* "hunter2"

\* The usernames and passwords the calls are made with.
Usernames == {alice, svcWorker1}
SpecNames == {alice, svcWorker1, naive, badUser}
Passwords == {pwA, pwB}
Flags == {None, TrueStr, FalseStr}
Fields == {"username", "password", "system", "email"}

\* The salts pbkdf2_sha256.hash may draw.
NumSalts == 1
Salts == 1..NumSalts

max_retries == 10
\* retry_sleep_start, in units of 0.1 s
retry_sleep_start == 1

----------------------------------------------------------------------------
(* passlib.hash.pbkdf2_sha256, as manager.py uses it: a hash string is     *)
(* "$" salt "$" digest; the digest stands for the secret it was made of.   *)

Hashed(password, salt) == <<36, 96 + salt, 36>> \o password

IsHash(h) == Len(h) > 3 /\ h[1] = 36 /\ h[3] = 36

verifyAnySecret(secret, h) == Len(h) > 3

\* pbkdf2_sha256.verify(secret, hash) for a well-formed hash
verify(secret, h) == SubSeq(h, 4, Len(h)) = secret

encryptPlain(password, salt) == password

\* AuthenticationManager.encrypt
encrypt(password, salt) == Hashed(password, salt)

----------------------------------------------------------------------------
(* The redis hash commands *)

NoRecord == [f \in {} |-> None]

\* HMSET key mapping
hmset(rec, mapping) ==
    [f \in DOMAIN rec \cup DOMAIN mapping |->
        IF f \in DOMAIN mapping THEN mapping[f] ELSE rec[f]]

\* EXISTS key
HasKey(st, u) == DOMAIN st[u] # {}

\* HMGET key field
hmget(rec, f) == IF f \in DOMAIN rec THEN rec[f] ELSE None

\* re.match("^[\x00-\x7F/]+$", username)
validate_username(username) ==
    /\ Len(username) > 0
    /\ \A i \in 1..Len(username) : username[i] \in 0..127 \cup {47}

----------------------------------------------------------------------------
(* The messenger as the manager's calls run it: one call of connect() or   *)
(* publish() from its entry to its return or raise.  closed says that the  *)
(* publish meets pika.exceptions.ConnectionClosed, k how many attempts to  *)
(* connect fail after it before the broker accepts one.                    *)

\* AuthenticationMessenger.wait
wait(r) == retry_sleep_start * (r ^ 2)

RECURSIVE connect(_, _)
connect(r, k) ==
    IF r >= max_retries THEN [raised |-> TRUE, retries |-> r]
    ELSE IF k = 0 THEN [raised |-> FALSE, retries |-> 0]
    ELSE connect(r + 1, k - 1)

\* ms: the messenger and what the call under way has emitted and raised
publish(ms, msg, closed, k) ==
    IF ms.conn = "open" /\ ~closed
    THEN [ms EXCEPT !.evts = Append(@, msg)]
    ELSE LET c == connect(ms.retries, k) IN
         IF c.raised
         THEN [ms EXCEPT !.retries = c.retries, !.conn = "closed",
                         !.exc = "TooManyRetries"]
         ELSE [ms EXCEPT !.retries = c.retries, !.conn = "open",
                         !.evts = Append(@, msg)]

\* An audit message; log() adds the time of sending, which is left out.
Event(action, username, system, ex, field) ==
    [action |-> action, username |-> username, system |-> system,
     exists |-> ex, field |-> field]

\* The n-th publish of a call under the broker behaviour env
log(ms, msg, env, n) == publish(ms, msg, env.at = n, env.k)

BoolStr(b) == IF b THEN TrueStr ELSE FalseStr

\* What a call leaves behind: the store, the messenger, and what the caller
\* gets: the exception raised, if any (one of the messenger goes first, it
\* ended the call where it was raised), or else the value returned.
Outcome(st, ms, exc, b, s, views) ==
    LET raised == IF ms.exc # "" THEN ms.exc ELSE exc IN
    [store |-> st, retries |-> ms.retries, conn |-> ms.conn, evts |-> ms.evts,
     exc |-> raised,
     bool |-> IF raised = "" THEN b ELSE FALSE,
     str |-> IF raised = "" THEN s ELSE None,
     views |-> IF raised = "" THEN views ELSE <<>>]

Raise(st, ms, exc) == Outcome(st, ms, exc, FALSE, None, <<>>)

----------------------------------------------------------------------------
(* AuthenticationManager *)

existsUnlogged(st, ms, username, env, n) ==
    [ms |-> ms, exists |-> HasKey(st, username)]

\* AuthenticationManager.exists, as far as its publish
exists(st, ms, username, env, n) ==
    LET ex == HasKey(st, username) IN
    [ms |-> log(ms, Event("user:exists", username, None, BoolStr(ex), {}), env, n),
     exists |-> ex]

_safe_userRaw(rec) == rec

\* AuthenticationManager._safe_user
_safe_user(rec) ==
    [f \in DOMAIN rec \cup {"password"} |->
        IF f = "password" THEN None ELSE rec[f]]

\* AuthenticationManager.get, as far as its publish
get(st, ms, username, safe, env, n) ==
    [ms |-> log(ms, Event("user:viewed", username, None, None, {}), env, n),
     user |-> IF safe THEN _safe_user(st[username]) ELSE st[username]]

\* The keyword arguments of add and modify
Kwargs(username, password, encrypted, system) ==
    LET given == [username |-> username, password |-> password,
                  encrypted |-> encrypted, system |-> system]
        keys == {f \in DOMAIN given : given[f] # None}
    IN [f \in keys |-> given[f]]

Without(kwargs, f) == [g \in DOMAIN kwargs \ {f} |-> kwargs[g]]

\* not kwargs.get('encrypted', <default False>)
NotEncrypted(kwargs) ==
    ~("encrypted" \in DOMAIN kwargs /\ kwargs["encrypted"] = TrueStr)

addUnchecked(st, ms, kwargs, salt, env) ==
    IF ~({"username", "password"} \subseteq DOMAIN kwargs)
    THEN Raise(st, ms, "ValidationError")
    ELSE IF ~validate_username(kwargs["username"])
    THEN Raise(st, ms, "BadUsername")
    ELSE
    LET username == kwargs["username"]
        e == exists(st, ms, username, env, 1)
    IN  IF e.ms.exc # "" THEN Raise(st, e.ms, "")
        ELSE
        LET k1 == IF NotEncrypted(kwargs)
                  THEN [kwargs EXCEPT !["password"] = encrypt(@, salt)]
                  ELSE kwargs
            k2 == Without(k1, "encrypted")
            k3 == hmset(k2, [f \in {"system"} |->
                     IF "system" \in DOMAIN k2 THEN k2["system"] ELSE FalseStr])
            st1 == [st EXCEPT ![username] = hmset(@, k3)]
            ms1 == log(e.ms, Event("user:added", username, None, None, {}), env, 2)
        IN  Outcome(st1, ms1, "", FALSE, username, <<>>)

\* AuthenticationManager.add
add(st, ms, kwargs, salt, env) ==
    IF ~({"username", "password"} \subseteq DOMAIN kwargs)
    THEN Raise(st, ms, "ValidationError")
    ELSE IF ~validate_username(kwargs["username"])
    THEN Raise(st, ms, "BadUsername")
    ELSE
    LET username == kwargs["username"]
        e == exists(st, ms, username, env, 1)
    IN  IF e.ms.exc # "" THEN Raise(st, e.ms, "")
        ELSE IF e.exists THEN Raise(st, e.ms, "UserAlreadyExists")
        ELSE
        LET k1 == IF NotEncrypted(kwargs)
                  THEN [kwargs EXCEPT !["password"] = encrypt(@, salt)]
                  ELSE kwargs
            k2 == Without(k1, "encrypted")
            k3 == hmset(k2, [f \in {"system"} |->
                     IF "system" \in DOMAIN k2 THEN k2["system"] ELSE FalseStr])
            st1 == [st EXCEPT ![username] = hmset(@, k3)]
            ms1 == log(e.ms, Event("user:added", username, None, None, {}), env, 2)
        IN  Outcome(st1, ms1, "", FALSE, username, <<>>)

\* AuthenticationManager.modify
modify(st, ms, kwargs, salt, env) ==
    IF "username" \notin DOMAIN kwargs
    THEN Raise(st, ms, "ValidationError")
    ELSE IF NotEncrypted(kwargs) /\ "password" \notin DOMAIN kwargs
    THEN Raise(st, ms, "KeyError")
    ELSE
    LET username == kwargs["username"]
        k1 == IF NotEncrypted(kwargs)
              THEN [kwargs EXCEPT !["password"] = encrypt(@, salt)]
              ELSE kwargs
        k2 == Without(Without(k1, "encrypted"), "username")
    IN  IF DOMAIN k2 = {} THEN Raise(st, ms, "DataError")
        ELSE
        LET st1 == [st EXCEPT ![username] = hmset(@, k2)]
            ms1 == log(ms, Event("user:changed-field", username, None, None,
                                 DOMAIN k2), env, 1)
        IN  Outcome(st1, ms1, "", TRUE, None, <<>>)

\* AuthenticationManager.delete
delete(st, ms, username) ==
    Outcome([st EXCEPT ![username] = NoRecord], ms, "",
            FALSE, BoolStr(HasKey(st, username)), <<>>)

\* AuthenticationManager.authenticate
authenticate(st, ms, username, password, system, env) ==
    LET g == get(st, ms, username, FALSE, env, 1)
        user == g.user
    IN  IF g.ms.exc # "" THEN Raise(st, g.ms, "")
        ELSE IF DOMAIN user = {}
        THEN Outcome(st, log(g.ms, Event("user:failed-authorize", username,
                                         None, None, {}), env, 2),
                     "", FALSE, None, <<>>)
        ELSE IF "system" \notin DOMAIN user THEN Raise(st, g.ms, "KeyError")
        ELSE IF system /\ user["system"] # TrueStr
        THEN Outcome(st, log(g.ms, Event("user:failed-authorize", username,
                                         user["system"], None, {}), env, 2),
                     "", FALSE, None, <<>>)
        ELSE
        LET ms1 == log(g.ms, Event("user:authorized", username, user["system"],
                                   None, {}), env, 2)
        IN  IF ms1.exc # "" THEN Raise(st, ms1, "")
            ELSE IF "password" \notin DOMAIN user THEN Raise(st, ms1, "KeyError")
            ELSE IF ~IsHash(user["password"]) THEN Raise(st, ms1, "ValueError")
            ELSE Outcome(st, ms1, "", verify(password, user["password"]),
                         None, <<>>)

\* AuthenticationManager.get, called from outside
getUser(st, ms, username, env) ==
    LET g == get(st, ms, username, TRUE, env, 1)
    IN  Outcome(st, g.ms, "", FALSE, None, <<g.user>>)

get_one_fieldAny(st, ms, username, field, env) ==
    Outcome(st, log(ms, Event("user:viewed-field", username, None, None,
                              {field}), env, 1),
            "", FALSE, hmget(st[username], field), <<>>)

\* AuthenticationManager.get_one_field
get_one_field(st, ms, username, field, env) ==
    IF field \in {"password"} THEN Raise(st, ms, "FieldNotFound")
    ELSE Outcome(st, log(ms, Event("user:viewed-field", username, None, None,
                                   {field}), env, 1),
                 "", FALSE, hmget(st[username], field), <<>>)

\* AuthenticationManager.list_users; keys: the result of KEYS user:*
list_users(st, ms, keys, env) ==
    Outcome(st, log(ms, Event("user:viewed-listing", None, None, None, {}),
                    env, 1),
            "", FALSE, None, [i \in DOMAIN keys |-> _safe_user(st[keys[i]])])

----------------------------------------------------------------------------
(* The calls on one AuthenticationManager, each from entry to return or    *)
(* raise, under every behaviour of the broker that Envs lists.             *)

\* How long the broker stays unreachable once a connection is lost:
\* for one failed attempt to connect, or for as many as connect() makes.
Outages == {1, max_retries}

\* The broker's behaviours during a call that publishes n times.
\* at: which publish finds the connection closed (0: none).  Once the
\* connection is closed for good every behaviour gives the same outcome.
Envs(n) ==
    IF conn = "open"
    THEN {[at |-> 0, k |-> 0]} \cup [at : 1..n, k : Outages]
    ELSE {[at |-> 0, k |-> 0]}

\* The salts a call can draw: one salt is as good as another for a call
\* that does not hash.
SaltsFor(p, enc) == IF p # None /\ enc # TrueStr THEN Salts ELSE {1}

\* The manager instances that share the store
Managers == {1, 2}

\* A manager that has no call under way, on its first connection; ex, keys:
\* the locals `exists` of add and `keys` of list_users; unlisted: history,
\* the keys that exist when list_users fetches and that it did not enumerate
IdleProc == [pc |-> "idle", op |-> "", kwargs |-> NoRecord, username |-> None,
             ex |-> FALSE, keys |-> <<>>, unlisted |-> {},
             retries |-> 0, conn |-> "open",
             exc |-> "", str |-> None, views |-> <<>>, evts |-> <<>>]

Start == [retries |-> retries, conn |-> conn, evts |-> <<>>, exc |-> ""]

\* req.authorization when the request has no Authorization header
NoAuthorization == [auth_type |-> "", token |-> <<>>]

NoRequest == [method |-> "", path |-> <<>>, content_type |-> "",
              authorization |-> NoAuthorization, json |-> NoRecord]

\* request, status, calls: of a request to the gateway; the status of its
\* response and the calls of the manager it made
NoCall == [op |-> "", username |-> None, password |-> None, system |-> FALSE,
           field |-> "", kwargs |-> NoRecord, exc |-> "", bool |-> FALSE,
           str |-> None, views |-> <<>>, evts |-> <<>>,
           request |-> NoRequest, status |-> 0, calls |-> {}]

\* A call is made when the caller has taken the result of the one before.
Idle == last.op = ""

Do(call, out) ==
    /\ store' = out.store
    /\ retries' = out.retries
    /\ conn' = out.conn
    /\ last' = [call EXCEPT !.exc = out.exc, !.bool = out.bool, !.str = out.str,
                            !.views = out.views, !.evts = out.evts]
    /\ UNCHANGED msgVars
    /\ UNCHANGED proc

Add(u, p, enc, sys, salt, env) ==
    /\ Idle
    /\ \E kwargs \in {Kwargs(u, p, enc, sys)} :
       \E out \in {add(store, Start, kwargs, salt, env)} :
        /\ Do([NoCall EXCEPT !.op = "add", !.username = u, !.kwargs = kwargs], out)
        /\ live' = IF out.exc = "" THEN [live EXCEPT ![u] = TRUE] ELSE live
        /\ addPw' = IF out.exc = "" THEN [addPw EXCEPT ![u] =
                        IF NotEncrypted(kwargs) THEN p ELSE None]
                    ELSE addPw

Modify(u, p, enc, sys, salt, env) ==
    /\ Idle
    /\ \E kwargs \in {Kwargs(u, p, enc, sys)} :
       \E out \in {modify(store, Start, kwargs, salt, env)} :
        /\ Do([NoCall EXCEPT !.op = "modify", !.username = u, !.kwargs = kwargs], out)
        /\ addPw' = [addPw EXCEPT ![u] = None]
        /\ UNCHANGED live

Delete(u) ==
    /\ Idle
    /\ \E out \in {delete(store, Start, u)} :
        /\ Do([NoCall EXCEPT !.op = "delete", !.username = u], out)
        /\ live' = [live EXCEPT ![u] = FALSE]
        /\ addPw' = [addPw EXCEPT ![u] = None]

Exists(u, env) ==
    /\ Idle
    /\ \E e \in {exists(store, Start, u, env, 1)} :
        /\ Do([NoCall EXCEPT !.op = "exists", !.username = u],
              Outcome(store, e.ms, "", e.exists, None, <<>>))
        /\ UNCHANGED <<live, addPw>>

Authenticate(u, p, sys, env) ==
    /\ Idle
    /\ \E out \in {authenticate(store, Start, u, p, sys, env)} :
        /\ Do([NoCall EXCEPT !.op = "authenticate", !.username = u,
                             !.password = p, !.system = sys], out)
        /\ UNCHANGED <<live, addPw>>

Get(u, env) ==
    /\ Idle
    /\ \E out \in {getUser(store, Start, u, env)} :
        /\ Do([NoCall EXCEPT !.op = "get", !.username = u], out)
        /\ UNCHANGED <<live, addPw>>

GetOneField(u, f, env) ==
    /\ Idle
    /\ \E out \in {get_one_field(store, Start, u, f, env)} :
        /\ Do([NoCall EXCEPT !.op = "get_one_field", !.username = u,
                             !.field = f], out)
        /\ UNCHANGED <<live, addPw>>

ListUsers(keys, env) ==
    /\ Idle
    /\ \E out \in {list_users(store, Start, keys, env)} :
        /\ Do([NoCall EXCEPT !.op = "list_users"], out)
        /\ UNCHANGED <<live, addPw>>

\* The orders in which KEYS may list the keys that exist
KeyOrders(st) ==
    LET S == {u \in DOMAIN st : HasKey(st, u)}
    IN  {s \in [1..Cardinality(S) -> S] :
            \A i, j \in 1..Cardinality(S) : s[i] = s[j] => i = j}

\* The caller takes the result of the call; the manager is idle again.
TakeResult ==
    /\ last.op # ""
    /\ last' = NoCall
    /\ UNCHANGED <<store, retries, conn, live, addPw, proc>>
    /\ UNCHANGED msgVars

\* After AuthenticationManager.__init__ on an empty database
Init ==
    /\ store = [u \in SpecNames |-> NoRecord]
    /\ retries = 0
    /\ conn = "open"
    /\ last = NoCall
    /\ live = [u \in SpecNames |-> FALSE]
    /\ addPw = [u \in SpecNames |-> None]
    /\ mpc = "idle"
    /\ chan = ""
    /\ fails = 0
    /\ slept = -1
    /\ sent = [c \in {"job", "log"} |-> 0]
    /\ depth = 0
    /\ proc = [m \in Managers |-> IdleProc]

\* The calls a caller makes, with the arguments and broker behaviours tried
AddCall ==
    /\ Idle
    /\ \E u \in Usernames, p \in Passwords \cup {None}, enc \in Flags, sys \in Flags :
          \E salt \in SaltsFor(p, enc), env \in Envs(2) :
            Add(u, p, enc, sys, salt, env)

ModifyCall ==
    /\ Idle
    /\ \E u \in Usernames, p \in Passwords \cup {None}, enc \in Flags, sys \in Flags :
          \E salt \in SaltsFor(p, enc), env \in Envs(1) :
            Modify(u, p, enc, sys, salt, env)

DeleteCall == Idle /\ \E u \in Usernames : Delete(u)

ExistsCall == Idle /\ \E u \in Usernames, env \in Envs(1) : Exists(u, env)

AuthenticateCall ==
    /\ Idle
    /\ \E u \in Usernames, p \in Passwords, sys \in BOOLEAN, env \in Envs(2) :
            Authenticate(u, p, sys, env)

GetCall == Idle /\ \E u \in Usernames, env \in Envs(1) : Get(u, env)

GetOneFieldCall ==
    /\ Idle
    /\ \E u \in Usernames, f \in Fields, env \in Envs(1) : GetOneField(u, f, env)

ListUsersCall ==
    /\ Idle
    /\ \E keys \in KeyOrders(store), env \in Envs(1) : ListUsers(keys, env)

Next ==
    \/ AddCall
    \/ ModifyCall
    \/ DeleteCall
    \/ ExistsCall
    \/ AuthenticateCall
    \/ GetCall
    \/ GetOneFieldCall
    \/ ListUsersCall
    \/ TakeResult

Spec == Init /\ [][Next]_vars

----------------------------------------------------------------------------
(* The same calls made with each username of the validation examples, and  *)
(* one password.                                                           *)

AddName ==
    /\ Idle
    /\ \E u \in SpecNames, p \in {pwA, None}, enc \in {None, TrueStr} :
          \E salt \in SaltsFor(p, enc), env \in Envs(2) :
            Add(u, p, enc, None, salt, env)

ModifyName ==
    /\ Idle
    /\ \E u \in SpecNames, salt \in Salts, env \in Envs(1) :
            Modify(u, pwA, None, None, salt, env)

DeleteName == Idle /\ \E u \in SpecNames : Delete(u)

ExistsName == Idle /\ \E u \in SpecNames, env \in Envs(1) : Exists(u, env)

GetName == Idle /\ \E u \in SpecNames, env \in Envs(1) : Get(u, env)

NextNames ==
    \/ AddName
    \/ ModifyName
    \/ DeleteName
    \/ ExistsName
    \/ GetName
    \/ TakeResult

ValidationSpec == Init /\ [][NextNames]_vars

----------------------------------------------------------------------------
(* AuthenticationMessenger step by step: __init__ and the calls of job()   *)
(* and log(), with a broker that may refuse any attempt to connect and     *)
(* close the connection under any publish.                                 *)

\* The messages handed over per channel before the callers stop
MaxSent == 2

Channels == {"job", "log"}

\* The frames of publish() that the interpreter's stack has room for in one
\* call: a call that needs one more ends with RecursionError.
MaxDepth == 3

\* AuthenticationMessenger.__init__ has set its fields and calls connect()
MInit ==
    /\ store = [u \in SpecNames |-> NoRecord]
    /\ last = NoCall
    /\ live = [u \in SpecNames |-> FALSE]
    /\ addPw = [u \in SpecNames |-> None]
    /\ retries = 1
    /\ conn = "none"
    /\ mpc = "connect"
    /\ chan = "init"
    /\ fails = 0
    /\ slept = -1
    /\ sent = [c \in Channels |-> 0]
    /\ depth = 0
    /\ proc = [m \in Managers |-> IdleProc]

\* connect(): the bound is reached, TooManyRetries goes to the caller
ConnectRaise ==
    /\ mpc = "connect"
    /\ retries >= max_retries
    /\ mpc' = IF chan = "init" THEN "failed" ELSE "raised"
    /\ depth' = 0
    /\ UNCHANGED <<retries, conn, chan, fails, slept, sent>>
    /\ UNCHANGED mgrVars

ConnectOkUnbounded ==
    /\ mpc = "connect"
    /\ retries' = 0
    /\ conn' = "open"
    /\ fails' = 0
    /\ slept' = -1
    /\ mpc' = IF chan = "init" THEN "idle" ELSE "again"
    /\ UNCHANGED <<chan, sent, depth>>
    /\ UNCHANGED mgrVars

\* connect(): the connection opens and both channels are declared
ConnectOk ==
    /\ mpc = "connect"
    /\ retries < max_retries
    /\ retries' = 0
    /\ conn' = "open"
    /\ fails' = 0
    /\ slept' = -1
    /\ mpc' = IF chan = "init" THEN "idle" ELSE "again"
    /\ UNCHANGED <<chan, sent, depth>>
    /\ UNCHANGED mgrVars

\* connect(): ConnectionClosed; sleep, count and connect() again
ConnectFail ==
    /\ mpc = "connect"
    /\ retries < max_retries
    /\ slept' = wait(retries)
    /\ retries' = retries + 1
    /\ fails' = fails + 1
    /\ mpc' = "connect"
    /\ UNCHANGED <<conn, chan, sent, depth>>
    /\ UNCHANGED mgrVars

\* job(message) or log(message) is called
Call(c) ==
    /\ mpc \in {"idle", "raised", "recursion"}
    /\ sent[c] < MaxSent
    /\ mpc' = "publish"
    /\ chan' = c
    /\ depth' = 1
    /\ UNCHANGED <<retries, conn, fails, slept, sent>>
    /\ UNCHANGED mgrVars

\* publish(): basic_publish hands the message to the broker
PublishOk ==
    /\ mpc = "publish"
    /\ conn = "open"
    /\ sent' = [sent EXCEPT ![chan] = @ + 1]
    /\ mpc' = "idle"
    /\ depth' = 0
    /\ UNCHANGED <<retries, conn, chan, fails, slept>>
    /\ UNCHANGED mgrVars

\* publish(): basic_publish raises ConnectionClosed; connect(), then again
PublishClosed ==
    /\ mpc = "publish"
    /\ conn' = "closed"
    /\ mpc' = "connect"
    /\ UNCHANGED <<retries, chan, fails, slept, sent, depth>>
    /\ UNCHANGED mgrVars

\* publish(): connect() has returned; publish() calls itself
PublishAgain ==
    /\ mpc = "again"
    /\ depth < MaxDepth
    /\ depth' = depth + 1
    /\ mpc' = "publish"
    /\ UNCHANGED <<retries, conn, chan, fails, slept, sent>>
    /\ UNCHANGED mgrVars

\* publish(): connect() has returned; the stack has no room for the call
\* of publish(), and RecursionError goes to the caller
PublishRecursionError ==
    /\ mpc = "again"
    /\ depth >= MaxDepth
    /\ depth' = 0
    /\ mpc' = "recursion"
    /\ UNCHANGED <<retries, conn, chan, fails, slept, sent>>
    /\ UNCHANGED mgrVars

MNext ==
    \/ ConnectRaise
    \/ ConnectOk
    \/ ConnectFail
    \/ \E c \in Channels : Call(c)
    \/ PublishOk
    \/ PublishClosed
    \/ PublishAgain
    \/ PublishRecursionError

MessengerSpec == MInit /\ [][MNext]_vars

----------------------------------------------------------------------------
(* The HTTP gateway (wsgi.py).  A header or a path is the sequence of its  *)
(* octets or characters; a base64 text is the sequence of its digits, each *)
(* the number it stands for, with 64 for the padding "=".                  *)

Pad == 64

\* str.encode('utf-8'), for code points below U+0800
RECURSIVE utf8encode(_)
utf8encode(s) ==
    IF s = <<>> THEN <<>>
    ELSE (IF Head(s) < 128 THEN <<Head(s)>>
          ELSE <<192 + (Head(s) \div 64), 128 + (Head(s) % 64)>>)
         \o utf8encode(Tail(s))

\* A decoder's output that ends in -2 stands for the error it raised
Decoded(r) == IF r # <<>> /\ r[Len(r)] = -2 THEN <<-2>> ELSE r

RECURSIVE utf8decodeFrom(_)
utf8decodeFrom(b) ==
    IF b = <<>> THEN <<>>
    ELSE IF b[1] < 128 THEN <<b[1]>> \o utf8decodeFrom(Tail(b))
    ELSE IF b[1] \in 194..223 /\ Len(b) >= 2 /\ b[2] \in 128..191
    THEN <<(b[1] - 192) * 64 + (b[2] - 128)>>
             \o utf8decodeFrom(SubSeq(b, 3, Len(b)))
    ELSE <<-2>>

\* bytes.decode('utf-8'), for sequences of one and two octets; <<-2>> when
\* UnicodeDecodeError is raised
utf8decode(b) == Decoded(utf8decodeFrom(b))

\* base64.b64encode, which the client applies to "username:password"
RECURSIVE b64encode(_)
b64encode(b) ==
    IF b = <<>> THEN <<>>
    ELSE IF Len(b) = 1
    THEN <<b[1] \div 4, (b[1] % 4) * 16, Pad, Pad>>
    ELSE IF Len(b) = 2
    THEN <<b[1] \div 4, (b[1] % 4) * 16 + (b[2] \div 16), (b[2] % 16) * 4, Pad>>
    ELSE <<b[1] \div 4, (b[1] % 4) * 16 + (b[2] \div 16),
           (b[2] % 16) * 4 + (b[3] \div 64), b[3] % 64>>
         \o b64encode(SubSeq(b, 4, Len(b)))

RECURSIVE b64decodeFrom(_)
b64decodeFrom(t) ==
    IF t = <<>> THEN <<>>
    ELSE IF Len(t) < 4 \/ t[1] = Pad \/ t[2] = Pad THEN <<-2>>
    ELSE IF t[3] = Pad
    THEN IF Len(t) = 4 /\ t[4] = Pad
         THEN <<t[1] * 4 + (t[2] \div 16)>>
         ELSE <<-2>>
    ELSE IF t[4] = Pad
    THEN IF Len(t) = 4
         THEN <<t[1] * 4 + (t[2] \div 16), (t[2] % 16) * 16 + (t[3] \div 4)>>
         ELSE <<-2>>
    ELSE <<t[1] * 4 + (t[2] \div 16), (t[2] % 16) * 16 + (t[3] \div 4),
           (t[3] % 4) * 64 + t[4]>> \o b64decodeFrom(SubSeq(t, 5, Len(t)))

\* base64.b64decode; <<-2>> when binascii.Error (a ValueError) is raised
b64decode(t) == Decoded(b64decodeFrom(t))

\* str.split(sep)
RECURSIVE split(_, _)
split(s, sep) ==
    IF \A i \in 1..Len(s) : s[i] # sep THEN <<s>>
    ELSE LET i == CHOOSE i \in 1..Len(s) :
                    s[i] = sep /\ \A j \in 1..(i - 1) : s[j] # sep
         IN  <<SubSeq(s, 1, i - 1)>> \o split(SubSeq(s, i + 1, Len(s)), sep)

\* The messenger as a call has left it, for the call that follows
MsOf(out) ==
    [retries |-> out.retries, conn |-> out.conn, evts |-> out.evts,
     exc |-> IF out.exc = "TooManyRetries" THEN out.exc ELSE ""]

\* What a handler leaves behind: the store, the messenger, the exception it
\* raised if any, and the calls of the manager it made
Handled(st, ms, exc, calls) ==
    [store |-> st, ms |-> ms, exc |-> IF ms.exc # "" THEN ms.exc ELSE exc,
     calls |-> calls]

\* F of the value of e, which is computed once
Bind(e, F(_)) == CHOOSE r \in {F(x) : x \in {e}} : TRUE

\* AuthenticationMicroservice.authorize; the error of a decoder arrives as
\* the one part <<-2>>
authorize(st, ms, req, env) ==
    IF req.authorization.auth_type = ""
    THEN Handled(st, ms, "Unauthorized", {})
    ELSE Bind(split(utf8decode(b64decode(req.authorization.token)), 58),
              LAMBDA parts :
        IF parts = << <<-2>> >> \/ Len(parts) # 2
        THEN Handled(st, ms, "ValueError", {})
        ELSE Bind(authenticate(st, ms, parts[1], parts[2], TRUE, env),
                  LAMBDA a :
            IF a.exc # "" THEN Handled(st, MsOf(a), a.exc, {"authenticate"})
            ELSE IF ~a.bool
            THEN Handled(st, MsOf(a), "Unauthorized", {"authenticate"})
            ELSE Handled(st, MsOf(a), "", {"authenticate"})))

\* AuthenticationMicroservice.add_user
add_user(st, ms, req, salt, env) ==
    Bind(authorize(st, ms, req, env), LAMBDA z :
        IF z.exc # "" THEN z
        ELSE Bind(add(st, z.ms, req.json, salt, env), LAMBDA o :
                Handled(o.store, MsOf(o), o.exc, z.calls \cup {"add"})))

\* exists(username) in a handler, which raises NotFound unless it is true,
\* and then what the handler goes on with
Found(st, ms, username, env, calls, F(_)) ==
    Bind(exists(st, ms, username, env, 1), LAMBDA e :
        IF e.ms.exc # "" THEN Handled(st, e.ms, "", calls \cup {"exists"})
        ELSE IF ~e.exists
        THEN Handled(st, e.ms, "NotFound", calls \cup {"exists"})
        ELSE F(e.ms))

\* AuthenticationMicroservice.remove_user
remove_user(st, ms, req, username, env) ==
    Bind(authorize(st, ms, req, env), LAMBDA z :
        IF z.exc # "" THEN z
        ELSE Found(st, z.ms, username, env, z.calls, LAMBDA ms1 :
                Bind(delete(st, ms1, username), LAMBDA d :
                    Handled(d.store, MsOf(d), d.exc,
                            z.calls \cup {"exists", "delete"}))))

\* AuthenticationMicroservice.authenticate_user
authenticate_user(st, ms, req, username, env) ==
    Bind(authorize(st, ms, req, env), LAMBDA z :
        IF z.exc # "" THEN z
        ELSE Bind(authenticate(st, z.ms, username, req.json, FALSE, env),
                  LAMBDA a : Handled(st, MsOf(a), a.exc, z.calls)))

\* AuthenticationMicroservice.list_users
list_usersHandler(st, ms, keys, env) ==
    Bind(list_users(st, ms, keys, env), LAMBDA o :
        Handled(st, MsOf(o), o.exc, {"list_users"}))

\* AuthenticationMicroservice.get_user
get_user(st, ms, username, env) ==
    Found(st, ms, username, env, {}, LAMBDA ms1 :
        Bind(getUser(st, ms1, username, env), LAMBDA o :
            Handled(st, MsOf(o), o.exc, {"exists", "get"})))

\* AuthenticationMicroservice.get_user_field; get_one_field returns a list,
\* which is never None
get_user_field(st, ms, username, field, env) ==
    Found(st, ms, username, env, {}, LAMBDA ms1 :
        Bind(get_one_field(st, ms1, username, field, env), LAMBDA o :
            Handled(st, MsOf(o),
                    IF o.exc = "FieldNotFound" THEN "NotFound" ELSE o.exc,
                    {"exists", "get_one_field"})))

\* AuthenticationMicroservice.modify_user_field
modify_user_field(st, ms, req, username, salt, env) ==
    Bind(authorize(st, ms, req, env), LAMBDA z :
        IF z.exc # "" THEN z
        ELSE Found(st, z.ms, username, env, z.calls, LAMBDA ms1 :
                IF "username" \in DOMAIN req.json
                THEN Handled(st, ms1, "BadRequest", z.calls \cup {"exists"})
                ELSE Bind(modify(st, ms1,
                                 hmset([f \in {"username"} |-> username],
                                       req.json), salt, env),
                          LAMBDA o :
                        Handled(o.store, MsOf(o), o.exc,
                                z.calls \cup {"exists", "modify"}))))

passwordPart == <<112, 97, 115, 115, 119, 111, 114, 100>>   \* "password"
systemPart == <<115, 121, 115, 116, 101, 109>>              \* "system"

\* The field that a part of the path names
FieldOf(part) ==
    IF part = passwordPart THEN "password"
    ELSE IF part = systemPart THEN "system"
    ELSE "email"

\* AuthenticationMicroservice.__call__, as far as the handler's outcome
__call__(st, ms, req, keys, salt, env) ==
    LET parts == Tail(split(req.path, 47)) IN
    IF req.content_type # "application/json"
    THEN Handled(st, ms, "UnsupportedMediaType", {})
    ELSE IF parts = << <<>> >>
    THEN IF req.method = "GET" THEN list_usersHandler(st, ms, keys, env)
         ELSE IF req.method = "POST" THEN add_user(st, ms, req, salt, env)
         ELSE Handled(st, ms, "BadRequest", {})
    ELSE IF Len(parts) = 1
    THEN IF req.method = "GET" THEN get_user(st, ms, parts[1], env)
         ELSE IF req.method = "POST"
         THEN authenticate_user(st, ms, req, parts[1], env)
         ELSE IF req.method = "DELETE"
         THEN remove_user(st, ms, req, parts[1], env)
         ELSE Handled(st, ms, "BadRequest", {})
    ELSE IF Len(parts) = 2
    THEN IF req.method = "GET"
         THEN get_user_field(st, ms, parts[1], FieldOf(parts[2]), env)
         ELSE IF req.method = "PUT"
         THEN modify_user_field(st, ms, req, parts[1], salt, env)
         ELSE Handled(st, ms, "BadRequest", {})
    ELSE Handled(st, ms, "BadRequest", {})

\* The status of the response: that of the exception which __call__ catches,
\* 500 for one that leaves it, 200 for a result
Status(exc) ==
    IF exc = "" THEN 200
    ELSE IF exc = "Unauthorized" THEN 401
    ELSE IF exc = "NotFound" THEN 404
    ELSE IF exc = "UnsupportedMediaType" THEN 415
    ELSE IF exc \in {"BadRequest", "ValueError", "ValidationError",
                     "UserAlreadyExists", "BadUsername"} THEN 400
    ELSE 500

\* One request, from the call of the application to its response
Request(req, keys, salt, env) ==
    /\ Idle
    /\ \E out \in {__call__(store, Start, req, keys, salt, env)} :
        /\ store' = out.store
        /\ retries' = out.ms.retries
        /\ conn' = out.ms.conn
        /\ last' = [NoCall EXCEPT !.op = "request", !.request = req,
                                  !.status = Status(out.exc),
                                  !.calls = out.calls, !.exc = out.exc,
                                  !.evts = out.ms.evts]
        /\ live' = IF "add" \in out.calls /\ out.exc = ""
                   THEN [live EXCEPT ![req.json["username"]] = TRUE]
                   ELSE IF "delete" \in out.calls
                   THEN [live EXCEPT ![Tail(split(req.path, 47))[1]] = FALSE]
                   ELSE live
        /\ addPw' = IF "add" \in out.calls /\ out.exc = ""
                    THEN [addPw EXCEPT ![req.json["username"]] =
                            IF NotEncrypted(req.json)
                            THEN req.json["password"] ELSE None]
                    ELSE IF out.calls \cap {"delete", "modify"} # {}
                    THEN [addPw EXCEPT ![Tail(split(req.path, 47))[1]] = None]
                    ELSE addPw
        /\ UNCHANGED msgVars
        /\ UNCHANGED proc

----------------------------------------------------------------------------
(* The requests made to the gateway.  Its first system account is made by  *)
(* a call of the manager's add, as no request is authorised without one.   *)

pwColon == <<112, 58, 115, 115>>                \* "p:ss"

rootPath == <<47>>                              \* "/"
userPath == <<47>> \o alice                     \* "/alice"
fieldPaths == {userPath \o <<47>> \o passwordPart, userPath \o <<47>> \o systemPart}
deepPath == userPath \o <<47>> \o systemPart \o <<47>> \o systemPart

Methods == {"GET", "POST", "PUT", "DELETE"}

\* "username:password", as the client writes them
Credentials ==
    {u \o <<58>> \o p : u \in {svcWorker1}, p \in {pwA, pwB, pwColon}}
        \cup {alice \o <<58>> \o pwA, svcWorker1}

\* The Authorization headers: none, Basic with each of the credentials, and
\* Basic with a text that is not base64
Authorizations ==
    {NoAuthorization}
        \cup {[auth_type |-> "Basic", token |-> b64encode(utf8encode(c))] :
                 c \in Credentials}
        \cup {[auth_type |-> "Basic", token |-> <<19, 22>>]}

AddBodies ==
    {Kwargs(alice, pwA, None, None), Kwargs(alice, pwA, None, TrueStr),
     Kwargs(alice, None, None, None)}

ModifyBodies ==
    {Kwargs(None, pwB, None, None), Kwargs(None, None, None, TrueStr),
     Kwargs(alice, pwB, None, None)}

Json(method, path, authorization, body) ==
    [method |-> method, path |-> path, content_type |-> "application/json",
     authorization |-> authorization, json |-> body]

Provision ==
    /\ Idle
    /\ \E salt \in Salts, env \in Envs(2) :
          Add(svcWorker1, pwA, None, TrueStr, salt, env)

ListUsersRequest ==
    /\ Idle
    /\ \E keys \in KeyOrders(store), env \in Envs(2) :
          Request(Json("GET", rootPath, NoAuthorization, NoRecord), keys, 1, env)

AddUserRequest ==
    /\ Idle
    /\ \E a \in Authorizations, body \in AddBodies, salt \in Salts, env \in Envs(2) :
          Request(Json("POST", rootPath, a, body), <<>>, salt, env)

GetUserRequest ==
    /\ Idle
    /\ \E env \in Envs(2) :
          Request(Json("GET", userPath, NoAuthorization, NoRecord), <<>>, 1, env)

AuthenticateUserRequest ==
    /\ Idle
    /\ \E a \in Authorizations, p \in Passwords, env \in Envs(2) :
          Request(Json("POST", userPath, a, p), <<>>, 1, env)

RemoveUserRequest ==
    /\ Idle
    /\ \E a \in Authorizations, env \in Envs(2) :
          Request(Json("DELETE", userPath, a, NoRecord), <<>>, 1, env)

GetUserFieldRequest ==
    /\ Idle
    /\ \E path \in fieldPaths, env \in Envs(2) :
          Request(Json("GET", path, NoAuthorization, NoRecord), <<>>, 1, env)

ModifyUserFieldRequest ==
    /\ Idle
    /\ \E path \in fieldPaths, a \in Authorizations, body \in ModifyBodies,
          salt \in Salts, env \in Envs(2) :
          Request(Json("PUT", path, a, body), <<>>, salt, env)

\* A request that no handler is called for
RefusedRequest ==
    /\ Idle
    /\ \E method \in Methods, path \in {rootPath, userPath, deepPath},
          content_type \in {"application/json", "text/plain"},
          a \in Authorizations :
          /\ \/ content_type # "application/json"
             \/ path = deepPath
             \/ method = "PUT" /\ path \in {rootPath, userPath}
          /\ Request([Json(method, path, a, NoRecord)
                        EXCEPT !.content_type = content_type], <<>>, 1,
                     [at |-> 0, k |-> 0])

GatewayNext ==
    \/ Provision
    \/ ListUsersRequest
    \/ AddUserRequest
    \/ GetUserRequest
    \/ AuthenticateUserRequest
    \/ RemoveUserRequest
    \/ GetUserFieldRequest
    \/ ModifyUserFieldRequest
    \/ RefusedRequest
    \/ TakeResult

GatewaySpec == Init /\ [][GatewayNext]_vars

----------------------------------------------------------------------------
(* Two AuthenticationManager instances on one redis database, each with    *)
(* its own messenger.  A redis command, or a pipeline run as a transaction,*)
(* is one step; the calls of the two managers interleave between steps.    *)

\* The broker's behaviours during one publish of a messenger whose
\* connection is c
EnvsOf(c) ==
    IF c = "open" THEN {[at |-> 0, k |-> 0]} \cup [at : {1}, k : Outages]
    ELSE {[at |-> 0, k |-> 0]}

\* The messenger of a manager at the start of a call or of a step of it
MsIn(p) == [retries |-> p.retries, conn |-> p.conn, evts |-> p.evts, exc |-> ""]

\* The call of a manager has returned or raised
Ended(p, ms, exc, s, views) ==
    [p EXCEPT !.pc = "done", !.retries = ms.retries, !.conn = ms.conn,
              !.evts = ms.evts,
              !.exc = IF ms.exc # "" THEN ms.exc ELSE exc,
              !.str = IF ms.exc # "" \/ exc # "" THEN None ELSE s,
              !.views = IF ms.exc # "" \/ exc # "" THEN <<>> ELSE views]

\* add, as far as its existence check
AddExists(m, kwargs, env) ==
    /\ proc[m].pc = "idle"
    /\ LET p == [proc[m] EXCEPT !.op = "add", !.kwargs = kwargs,
                                !.username = hmget(kwargs, "username")]
       IN
       IF ~({"username", "password"} \subseteq DOMAIN kwargs)
       THEN proc' = [proc EXCEPT ![m] = Ended(p, MsIn(p), "ValidationError", None, <<>>)]
       ELSE IF ~validate_username(kwargs["username"])
       THEN proc' = [proc EXCEPT ![m] = Ended(p, MsIn(p), "BadUsername", None, <<>>)]
       ELSE LET e == exists(store, MsIn(p), kwargs["username"], env, 1) IN
            IF e.ms.exc # "" \/ e.exists
            THEN proc' = [proc EXCEPT ![m] =
                            Ended(p, e.ms, "UserAlreadyExists", None, <<>>)]
            ELSE proc' = [proc EXCEPT ![m] =
                            [p EXCEPT !.pc = "add_checked", !.ex = e.exists,
                                      !.retries = e.ms.retries,
                                      !.conn = e.ms.conn, !.evts = e.ms.evts]]
    /\ UNCHANGED <<store, retries, conn, last, live, addPw>>
    /\ UNCHANGED msgVars

AddHmsetChecked(m, salt, env) ==
    /\ proc[m].pc = "add_checked"
    /\ LET p == proc[m]
           username == p.username
       IN  IF HasKey(store, username)
           THEN /\ proc' = [proc EXCEPT ![m] =
                               Ended(p, MsIn(p), "UserAlreadyExists", None, <<>>)]
                /\ UNCHANGED <<store, live, addPw>>
           ELSE
           LET k1 == IF NotEncrypted(p.kwargs)
                     THEN [p.kwargs EXCEPT !["password"] = encrypt(@, salt)]
                     ELSE p.kwargs
               k2 == Without(k1, "encrypted")
               k3 == hmset(k2, [f \in {"system"} |->
                        IF "system" \in DOMAIN k2 THEN k2["system"] ELSE FalseStr])
               ms1 == log(MsIn(p), Event("user:added", username, None, None, {}),
                          env, 1)
           IN  /\ store' = [store EXCEPT ![username] = hmset(@, k3)]
               /\ proc' = [proc EXCEPT ![m] = Ended(p, ms1, "", username, <<>>)]
               /\ live' = IF ms1.exc = "" THEN [live EXCEPT ![username] = TRUE]
                          ELSE live
               /\ addPw' = IF ms1.exc = ""
                           THEN [addPw EXCEPT ![username] =
                                   IF NotEncrypted(p.kwargs)
                                   THEN p.kwargs["password"] ELSE None]
                           ELSE addPw
    /\ UNCHANGED <<retries, conn, last>>
    /\ UNCHANGED msgVars

\* add, from the hashing of the password to its return
AddHmset(m, salt, env) ==
    /\ proc[m].pc = "add_checked"
    /\ LET p == proc[m]
           username == p.username
           k1 == IF NotEncrypted(p.kwargs)
                 THEN [p.kwargs EXCEPT !["password"] = encrypt(@, salt)]
                 ELSE p.kwargs
           k2 == Without(k1, "encrypted")
           k3 == hmset(k2, [f \in {"system"} |->
                    IF "system" \in DOMAIN k2 THEN k2["system"] ELSE FalseStr])
           ms1 == log(MsIn(p), Event("user:added", username, None, None, {}),
                      env, 1)
       IN  /\ store' = [store EXCEPT ![username] = hmset(@, k3)]
           /\ proc' = [proc EXCEPT ![m] = Ended(p, ms1, "", username, <<>>)]
           /\ live' = IF ms1.exc = "" THEN [live EXCEPT ![username] = TRUE]
                      ELSE live
           /\ addPw' = IF ms1.exc = ""
                       THEN [addPw EXCEPT ![username] =
                               IF NotEncrypted(p.kwargs)
                               THEN p.kwargs["password"] ELSE None]
                       ELSE addPw
    /\ UNCHANGED <<retries, conn, last>>
    /\ UNCHANGED msgVars

\* delete
DeleteKey(m, username) ==
    /\ proc[m].pc = "idle"
    /\ store' = [store EXCEPT ![username] = NoRecord]
    /\ proc' = [proc EXCEPT ![m] =
                  Ended([@ EXCEPT !.op = "delete", !.username = username],
                        MsIn(@), "", BoolStr(HasKey(store, username)), <<>>)]
    /\ live' = [live EXCEPT ![username] = FALSE]
    /\ addPw' = [addPw EXCEPT ![username] = None]
    /\ UNCHANGED <<retries, conn, last>>
    /\ UNCHANGED msgVars

\* list_users: KEYS user:*
ListKeys(m, keys) ==
    /\ proc[m].pc = "idle"
    /\ proc' = [proc EXCEPT ![m] = [@ EXCEPT !.pc = "list_keys",
                                             !.op = "list_users",
                                             !.keys = keys]]
    /\ UNCHANGED <<store, retries, conn, last, live, addPw>>
    /\ UNCHANGED msgVars

ListFetchStored(m, env) ==
    /\ proc[m].pc = "list_keys"
    /\ LET p == proc[m]
           stored == SelectSeq(p.keys, LAMBDA u : HasKey(store, u))
           ms1 == log(MsIn(p), Event("user:viewed-listing", None, None, None, {}),
                      env, 1)
       IN  proc' = [proc EXCEPT ![m] =
                      Ended([p EXCEPT !.unlisted =
                                {u \in SpecNames : HasKey(store, u)}
                                    \ {p.keys[i] : i \in DOMAIN p.keys}],
                            ms1, "", None,
                            [i \in DOMAIN stored |-> _safe_user(store[stored[i]])])]
    /\ UNCHANGED <<store, retries, conn, last, live, addPw>>
    /\ UNCHANGED msgVars

\* list_users: the pipeline of one HGETALL per key, the event and the return
ListFetch(m, env) ==
    /\ proc[m].pc = "list_keys"
    /\ LET p == proc[m]
           ms1 == log(MsIn(p), Event("user:viewed-listing", None, None, None, {}),
                      env, 1)
       IN  proc' = [proc EXCEPT ![m] =
                      Ended([p EXCEPT !.unlisted =
                                {u \in SpecNames : HasKey(store, u)}
                                    \ {p.keys[i] : i \in DOMAIN p.keys}],
                            ms1, "", None,
                            [i \in DOMAIN p.keys |-> _safe_user(store[p.keys[i]])])]
    /\ UNCHANGED <<store, retries, conn, last, live, addPw>>
    /\ UNCHANGED msgVars

\* The caller of the manager takes the result; the messenger stays as it is
Return(m) ==
    /\ proc[m].pc = "done"
    /\ proc' = [proc EXCEPT ![m] = [IdleProc EXCEPT !.retries = proc[m].retries,
                                                   !.conn = proc[m].conn]]
    /\ UNCHANGED <<store, retries, conn, last, live, addPw>>
    /\ UNCHANGED msgVars

AddExistsStep ==
    \E m \in Managers :
       /\ proc[m].pc = "idle"
       /\ \E u \in Usernames, p \in Passwords, env \in EnvsOf(proc[m].conn) :
             AddExists(m, Kwargs(u, p, None, None), env)

AddHmsetStep ==
    \E m \in Managers :
       /\ proc[m].pc = "add_checked"
       /\ \E salt \in Salts, env \in EnvsOf(proc[m].conn) : AddHmset(m, salt, env)

DeleteStep ==
    \E m \in Managers, u \in Usernames : DeleteKey(m, u)

ListKeysStep ==
    \E m \in Managers :
       /\ proc[m].pc = "idle"
       /\ \E keys \in KeyOrders(store) : ListKeys(m, keys)

ListFetchStep ==
    \E m \in Managers :
       /\ proc[m].pc = "list_keys"
       /\ \E env \in EnvsOf(proc[m].conn) : ListFetch(m, env)

ReturnStep == \E m \in Managers : Return(m)

ConcurrentNext ==
    \/ AddExistsStep
    \/ AddHmsetStep
    \/ DeleteStep
    \/ ListKeysStep
    \/ ListFetchStep
    \/ ReturnStep

ConcurrentSpec == Init /\ [][ConcurrentNext]_vars

----------------------------------------------------------------------------
(* Properties.  Those of the credential store are about the calls that the *)
(* messenger does not end with TooManyRetries, which aborts any call it is *)
(* raised in.                                                              *)

Published == last.exc # "TooManyRetries"

Emitted(evts, action) == \E i \in DOMAIN evts : evts[i].action = action

\* C1: after add(username=u, password=p) without encrypted=true has returned
\* and while no modify or delete of u has been called, authenticate(u, q)
\* returns true for q = p and false for every other q.
C1_AddThenAuthenticate ==
    (/\ last.op = "authenticate"
     /\ ~last.system
     /\ addPw[last.username] # None
     /\ Published)
    => /\ last.exc = ""
       /\ last.bool = (last.password = addPw[last.username])

C1_Witness ==
    /\ last.op = "authenticate"
    /\ ~last.system
    /\ addPw[last.username] = last.password
    /\ last.exc = ""
    /\ last.bool

\* C2: every record that get(u) or list_users() returns has the password
\* field, and has None in it; no field of it holds a stored password.
C2_ViewsRedacted ==
    last.op \in {"get", "list_users"} =>
        \A i \in DOMAIN last.views :
            /\ "password" \in DOMAIN last.views[i]
            /\ last.views[i]["password"] = None
            /\ \A f \in DOMAIN last.views[i], u \in SpecNames :
                  "password" \in DOMAIN store[u]
                      => last.views[i][f] # store[u]["password"]

C2_Witness ==
    /\ last.op = "list_users"
    /\ Len(last.views) = 2
    /\ \A u \in Usernames : "password" \in DOMAIN store[u]

NoAdded(call) == ~Emitted(call.evts, "user:added")

\* C3 as the specification states it: add for a username that has a record
\* raises UserAlreadyExists, changes no record and emits no `added` event.
C3_Original ==
    [][(Idle /\ last'.op = "add" /\ HasKey(store, last'.username)
        /\ last'.exc # "TooManyRetries")
       => /\ last'.exc = "UserAlreadyExists"
          /\ store' = store
          /\ NoAdded(last')]_vars

\* C3: add for a username that has a record raises, changes no record and
\* emits no `added` event; what it raises is UserAlreadyExists when the call
\* passes the schema and the username pattern and its `exists` event is
\* published.
C3_DuplicateAdd ==
    [][(Idle /\ last'.op = "add" /\ HasKey(store, last'.username))
       => /\ last'.exc # ""
          /\ store' = store
          /\ NoAdded(last')
          /\ (/\ {"username", "password"} \subseteq DOMAIN last'.kwargs
              /\ validate_username(last'.username)
              /\ last'.exc # "TooManyRetries")
             => last'.exc = "UserAlreadyExists"]_vars

C3_Witness ==
    /\ last.op = "add"
    /\ last.exc = "UserAlreadyExists"
    /\ HasKey(store, last.username)
    /\ ~Emitted(last.evts, "user:added")

\* C4: authenticate(u, p, system=true) returns true exactly when u has a
\* record whose system flag is "True" and whose password is a hash of p; when
\* u has a record whose system flag is not "True" the call returns false and
\* ends with a `failed` event that carries the stored flag, whatever the
\* password field holds.
C4_SystemAuthenticate ==
    (last.op = "authenticate" /\ last.system /\ Published) =>
        LET rec == store[last.username] IN
        /\ (last.exc = "" /\ last.bool)
             <=> /\ hmget(rec, "system") = TrueStr
                 /\ \E s \in Salts : hmget(rec, "password") = Hashed(last.password, s)
        /\ (DOMAIN rec # {} /\ hmget(rec, "system") # TrueStr)
             => /\ last.exc = ""
                /\ ~last.bool
                /\ ~Emitted(last.evts, "user:authorized")
                /\ last.evts[Len(last.evts)] =
                      Event("user:failed-authorize", last.username,
                            hmget(rec, "system"), None, {})

\* C5: get_one_field(u, "password") raises FieldNotFound and returns nothing,
\* for every u and every store.
C5_PasswordFieldNotFound ==
    (last.op = "get_one_field" /\ last.field = "password") =>
        /\ last.exc = "FieldNotFound"
        /\ last.str = None
        /\ last.views = <<>>

C5_Witness ==
    /\ last.op = "get_one_field"
    /\ last.field = "password"
    /\ "password" \in DOMAIN store[last.username]
    /\ last.exc = "FieldNotFound"

\* C6: add accepts the usernames "alice" and "svc/worker-1"; it raises
\* BadUsername for "naive" written with U+00EF and for "bad user", and then
\* stores nothing.
C6_UsernameExamples ==
    [][(Idle /\ last'.op = "add" /\ "password" \in DOMAIN last'.kwargs
        /\ last'.exc # "TooManyRetries")
       => /\ last'.username \in {alice, svcWorker1}
              => last'.exc # "BadUsername"
          /\ last'.username \in {naive, badUser}
              => (last'.exc = "BadUsername" /\ store' = store)]_vars

\* C7: in every run of consecutive failed attempts of connect(), the n-th
\* failed attempt is followed by a sleep of retry_sleep_start * n^2.
C7_BackoffSchedule ==
    fails > 0 => slept = retry_sleep_start * (fails ^ 2)

\* C8: connect() raises TooManyRetries after max_retries consecutive failed
\* attempts and never after fewer; after max_retries failed attempts it
\* makes no further attempt.
C8_RaiseAfterMaxRetries ==
    /\ mpc \in {"failed", "raised"} => fails = max_retries
    /\ (mpc = "connect" /\ fails >= max_retries) => retries >= max_retries

\* C9: exists(u) returns whether u has a record, emits one event, which is an
\* `exists` event carrying that boolean, and leaves the store as it was.
C9_Exists ==
    [][(Idle /\ last'.op = "exists" /\ last'.exc # "TooManyRetries")
       => /\ last'.exc = ""
          /\ last'.bool = HasKey(store, last'.username)
          /\ last'.evts = <<Event("user:exists", last'.username, None,
                                  BoolStr(HasKey(store, last'.username)), {})>>
          /\ store' = store]_vars

C9_Witness ==
    /\ last.op = "exists"
    /\ last.exc = ""
    /\ ~last.bool
    /\ \A u \in SpecNames : ~HasKey(store, u)
    /\ Len(last.evts) = 1
    /\ last.evts[1].exists = FalseStr

\* C10: a username has a record exactly when an add of it has returned and no
\* delete of it has run since (while the broker connection is not lost for
\* good).
C10_RecordIffAdded ==
    conn = "open" => \A u \in SpecNames : HasKey(store, u) <=> live[u]

\* C11: every call of publish ends after a bounded number of attempts in one
\* of two ways, whatever the broker does: the message is handed to the broker
\* or TooManyRetries is raised.  No call ends in another way.
C11_PublishTerminates ==
    mpc # "recursion"

\* C12: every call of add, modify, delete, exists, authenticate, get,
\* get_one_field or list_users that returns has emitted at least one audit
\* event.
C12_EveryCallAudited ==
    (last.op # "" /\ last.exc = "") => Len(last.evts) >= 1

\* The fields other than username that a call of modify names
Named(kwargs) == DOMAIN kwargs \ {"username", "encrypted"}

\* C13: modify(username=u, F) for a u that has a record returns, whatever
\* fields F names; then each field of F holds the value given (the password
\* its hash unless encrypted is true), every other field of u and every other
\* record is as before, and the one event emitted is `changed` with the
\* names of F.
C13_ModifyFrame ==
    [][(Idle /\ last'.op = "modify" /\ HasKey(store, last'.username)
        /\ last'.exc # "TooManyRetries")
       => LET kw == last'.kwargs
              u == last'.username
          IN  /\ last'.exc = ""
              /\ DOMAIN store'[u] = DOMAIN store[u] \cup Named(kw)
              /\ \A f \in Named(kw) :
                    IF f = "password" /\ NotEncrypted(kw)
                    THEN \E salt \in Salts : store'[u][f] = Hashed(kw[f], salt)
                    ELSE store'[u][f] = kw[f]
              /\ \A f \in DOMAIN store[u] \ Named(kw) : store'[u][f] = store[u][f]
              /\ \A v \in SpecNames \ {u} : store'[v] = store[v]
              /\ last'.evts = <<Event("user:changed-field", u, None, None,
                                      Named(kw))>>]_vars

\* C14: no record ever has an `encrypted` field, and the password that a call
\* of add or modify without encrypted=true writes is stored as a hash of the
\* password given, not as the password given.
C14_HashedNoFlag ==
    [][/\ \A u \in SpecNames : "encrypted" \notin DOMAIN store'[u]
       /\ (/\ Idle
           /\ last'.op \in {"add", "modify"}
           /\ "password" \in DOMAIN last'.kwargs
           /\ NotEncrypted(last'.kwargs)
           /\ (last'.exc = "" \/ store' # store))
          => LET p == last'.kwargs["password"]
                 rec == store'[last'.username]
             IN  /\ "password" \in DOMAIN rec
                 /\ rec["password"] # p
                 /\ \E salt \in Salts : rec["password"] = Hashed(p, salt)]_vars

C14_Witness ==
    /\ last.op = "modify"
    /\ last.exc = ""
    /\ hmget(last.kwargs, "encrypted") = FalseStr
    /\ "password" \in DOMAIN last.kwargs
    /\ store[last.username]["password"] = Hashed(last.kwargs["password"], 1)
    /\ \E u \in Usernames \ {last.username} :
          /\ HasKey(store, u)
          /\ store[u]["password"] = pwA

\* The routes that call authorize
Guarded(req) ==
    LET parts == Tail(split(req.path, 47)) IN
    /\ req.content_type = "application/json"
    /\ \/ req.method = "POST" /\ parts = << <<>> >>
       \/ req.method \in {"POST", "DELETE"} /\ Len(parts) = 1 /\ parts # << <<>> >>
       \/ req.method = "PUT" /\ Len(parts) = 2

\* The request carries Basic credentials username:password for which
\* authenticate(username, password, system=True) returns true
ValidCredentials(st, req) ==
    /\ req.authorization.auth_type = "Basic"
    /\ \E u \in SpecNames, p \in Passwords \cup {pwColon} :
          /\ req.authorization.token = b64encode(utf8encode(u \o <<58>> \o p))
          /\ LET a == authenticate(st, [retries |-> 0, conn |-> "open",
                                        evts |-> <<>>, exc |-> ""],
                                   u, p, TRUE, [at |-> 0, k |-> 0])
             IN  a.exc = "" /\ a.bool

\* C15: a request for application/json on POST /, DELETE /{user},
\* POST /{user} or PUT /{user}/{field} that does not carry the credentials
\* of a stored system account is answered with 401, calls none of add,
\* delete and modify, and leaves the store as it was.
C15_GatewayAuthorization ==
    [][(/\ Idle
        /\ last'.op = "request"
        /\ Guarded(last'.request)
        /\ ~ValidCredentials(store, last'.request)
        /\ last'.exc # "TooManyRetries")
       => /\ last'.status = 401
          /\ last'.calls \cap {"add", "delete", "modify"} = {}
          /\ store' = store]_vars

\* C16: once connect() has raised TooManyRetries to a caller, retries stays
\* at the bound and the connection closed for ever: no attempt to connect is
\* made again (the count of failed attempts stands), and no publish hands a
\* message over; every call ends where it began, with TooManyRetries.
C16_TooManyRetriesTerminal ==
    [](mpc = "raised" =>
         [](/\ retries >= max_retries
            /\ conn = "closed"
            /\ fails = max_retries
            /\ mpc \in {"raised", "publish", "connect"}))

C16_Witness ==
    /\ mpc = "publish"
    /\ retries >= max_retries
    /\ conn = "closed"
    /\ sent[chan] < MaxSent

\* C17: an add that has passed its existence check returns the username and
\* emits `added`, and does not raise UserAlreadyExists, whatever the other
\* manager has written since the check (unless its messenger ends it with
\* TooManyRetries); so two adds of one username that both pass the check
\* before either writes both return.
C17_BothAddsReturn ==
    [][\A m \in Managers :
         (/\ proc[m].pc = "add_checked"
          /\ proc'[m].pc = "done"
          /\ proc'[m].exc # "TooManyRetries")
         => /\ proc'[m].exc = ""
            /\ proc'[m].str = proc[m].username
            /\ Emitted(proc'[m].evts, "user:added")]_vars

C17_Witness ==
    /\ \A m \in Managers :
          /\ proc[m].pc = "done"
          /\ proc[m].op = "add"
          /\ proc[m].username = alice
          /\ ~proc[m].ex
          /\ proc[m].exc = ""
          /\ proc[m].str = alice
          /\ Emitted(proc[m].evts, "user:added")
    /\ proc[1].kwargs # proc[2].kwargs

\* C18: list_users returns one entry for each key it enumerated, each with
\* the password None, and emits one event, `viewed-listing`, whatever the
\* other manager adds or deletes between the enumeration and the fetch.
C18_ListPerEnumeratedKey ==
    [][\A m \in Managers :
         (/\ proc[m].pc = "list_keys"
          /\ proc'[m].pc = "done"
          /\ proc'[m].exc # "TooManyRetries")
         => /\ proc'[m].exc = ""
            /\ Len(proc'[m].views) = Len(proc[m].keys)
            /\ \A i \in DOMAIN proc'[m].views :
                  /\ "password" \in DOMAIN proc'[m].views[i]
                  /\ proc'[m].views[i]["password"] = None
            /\ proc'[m].evts = <<Event("user:viewed-listing", None, None,
                                       None, {})>>]_vars

\* A listing with an entry for a key that has no record any more, and
\* without one for a key that has a record
C18_Witness ==
    \E m \in Managers :
       /\ proc[m].pc = "done"
       /\ proc[m].op = "list_users"
       /\ proc[m].exc = ""
       /\ Len(proc[m].views) = 1
       /\ DOMAIN proc[m].views[1] = {"password"}
       /\ proc[m].unlisted # {}

\* C19: an add that raises, whatever it raises (a validation error,
\* BadUsername, UserAlreadyExists, or TooManyRetries from the messenger),
\* leaves every record as it was.
C19_FailedAddWritesNothing ==
    [][(Idle /\ last'.op = "add" /\ last'.exc # "") => store' = store]_vars

\* C20: authenticate emits `user:authorized` only in a call that returns
\* true, and `user:failed-authorize` only in a call that returns false.
C20_AuditAgreesWithResult ==
    last.op = "authenticate" =>
        /\ Emitted(last.evts, "user:authorized")
              => (last.exc = "" /\ last.bool)
        /\ Emitted(last.evts, "user:failed-authorize")
              => (last.exc = "" /\ ~last.bool)

====
